---- MODULE Spec2Model ----
(***************************************************************************)
(* A model of the Store data-view layer of legate.core:                    *)
(*   - legate::mapping::Store / RegionField / FutureWrapper / Copy         *)
(*     (src/core/mapping/operation.cc), and                                *)
(*   - the accessor, shape and scalar templates of legate::Store and       *)
(*     legate::RegionField (src/core.inl).                                 *)
(* The model is the assertion-enabled build: a failing assert(...) ends    *)
(* the call with outcome "assert" and nothing is returned.  The            *)
(* DEBUG_LEGATE-gated checks of Copy are governed by the DEBUG_LEGATE      *)
(* variable.                                                               *)
(***************************************************************************)
EXTENDS Integers, Sequences, FiniteSets, TLC

\* ---- bounds of the model -------------------------------------------------
\* ranks range over 0..MaxDim, compile-time dimensions over 1..MaxDim
MaxDim == 2
\* reduction operator ids range over 1..MaxRedop
MaxRedop == 2
\* region tree ids range over 1..MaxTree
MaxTree == 2
\* transform stacks hold 1..MaxStack transforms
MaxStack == 1
\* each serialized Store list of a Copy holds 0..MaxList stores
MaxList == 1

\* ---- program constants ---------------------------------------------------
\* redop_id_ of a store that is not a reduction target
NoRedop == -1

VARIABLES
  stores,        \* slot -> Store object (immutable once constructed)
  live,          \* the slots whose Store has been constructed
  colo,          \* <<x, y>> -> outcome of stores[x].can_colocate_with(stores[y])
  ret,           \* outcome of the last single-store operation on slot 1
  pc,            \* position inside Copy::Copy
  dez,           \* the CopyDeserializer of the Copy under construction
  copy,          \* the Copy object's four Store lists
  log,           \* the deserializer calls Copy::Copy has made so far
  DEBUG_LEGATE   \* whether the DEBUG_LEGATE checks are compiled in

vars == <<stores, live, colo, ret, pc, dez, copy, log, DEBUG_LEGATE>>

Slots == {1, 2}
Dims == 0..MaxDim
StaticDims == 1..MaxDim
RedopIds == {NoRedop} \cup (1..MaxRedop)
TreeIds == 1..MaxTree

\* ---- external collaborators (boundary only) -------------------------------

\* A Domain is the tuple of its per-axis extents; its rank is its length.
\* Legion's default-constructed Domain has rank 0.
DomainOfRank(n) == [i \in 1..n |-> i + 1]

\* A region requirement: the region's tree id and the rank of its index space.
Requirement(tree, dim) == [tree_id |-> tree, dim |-> dim]
NullRequirement == [tree_id |-> 0, dim |-> 0]

\* runtime->get_index_space_domain(context, index_space)
get_index_space_domain(runtime, context, index_space) ==
  [domain |-> DomainOfRank(index_space.dim),
   query  |-> [runtime |-> runtime, context |-> context]]

\* A transform pointer: null, or a stack of transforms.
NullTransform == [null |-> TRUE, stack |-> <<>>]
TransformStack(stack) == [null |-> FALSE, stack |-> stack]
TransformKinds == {"promote", "project", "transpose"}

RECURSIVE ReverseSeq(_)
ReverseSeq(s) == IF s = <<>> THEN <<>> ELSE Append(ReverseSeq(Tail(s)), Head(s))

\* One transform's forward map on a Domain: promote adds a leading axis,
\* project drops the leading axis, transpose reverses the axes.
TransformOne(kind, d) ==
  CASE kind = "promote"   -> <<1>> \o d
    [] kind = "project"   -> Tail(d)
    [] kind = "transpose" -> ReverseSeq(d)

\* TransformStack::transform(domain): the composed forward map.
RECURSIVE TransformStack_transform(_, _)
TransformStack_transform(stack, d) ==
  IF stack = <<>> THEN d
  ELSE TransformStack_transform(Tail(stack), TransformOne(Head(stack), d))

\* Whether the stack can be applied to a backing of the given rank.
RECURSIVE Applicable(_, _)
Applicable(stack, rank) ==
  IF stack = <<>> THEN TRUE
  ELSE /\ (Head(stack) = "project" => rank >= 1)
       /\ Applicable(Tail(stack),
                     CASE Head(stack) = "promote" -> rank + 1
                       [] Head(stack) = "project" -> rank - 1
                       [] OTHER -> rank)

\* TransformStack::inverse_transform(in_dim): the inverse map from the logical
\* space of rank in_dim back to the backing's coordinates.
TransformStack_inverse_transform(stack, in_dim) ==
  [in_dim |-> in_dim, inverse_of |-> ReverseSeq(stack)]
NoInverse == [in_dim |-> -1, inverse_of |-> <<>>]

RECURSIVE SeqsUpTo(_, _)
SeqsUpTo(S, n) ==
  IF n = 0 THEN {<<>>}
  ELSE LET shorter == SeqsUpTo(S, n - 1)
       IN  shorter \cup {Append(s, x) : s \in shorter, x \in S}

Stacks == SeqsUpTo(TransformKinds, MaxStack) \ {<<>>}

\* ---- RegionField and FutureWrapper (operation.cc) --------------------------

RegionField(req, dim, idx, fid) == [req_ |-> req, dim_ |-> dim, idx_ |-> idx, fid_ |-> fid]
DefaultRegionField == RegionField(NullRequirement, -1, 0, 0)

RegionField_can_colocate_with_le(self, other) ==
  self.req_.tree_id <= other.req_.tree_id

RegionField_can_colocate_with(self, other) ==
  self.req_.tree_id = other.req_.tree_id

RegionField_get_index_space(self) == [dim |-> self.req_.dim]

RegionField_domain(self, runtime, context) ==
  get_index_space_domain(runtime, context, RegionField_get_index_space(self))

FutureWrapper(idx, domain, value) == [idx_ |-> idx, domain_ |-> domain, value |-> value]
DefaultFutureWrapper == FutureWrapper(0, <<>>, 0)

FutureWrapper_domain(self) == self.domain_

\* ---- Store construction (operation.cc) -------------------------------------

Store_future(dim, code, future, transform) ==
  [is_future_ |-> TRUE, is_output_store_ |-> FALSE, dim_ |-> dim, code_ |-> code,
   redop_id_ |-> NoRedop, future_ |-> future, region_field_ |-> DefaultRegionField,
   transform_ |-> transform, runtime_ |-> "none", context_ |-> "none"]

Store_region(runtime, context, dim, code, redop_id, region_field, is_output_store, transform) ==
  [is_future_ |-> FALSE, is_output_store_ |-> is_output_store, dim_ |-> dim, code_ |-> code,
   redop_id_ |-> redop_id, future_ |-> DefaultFutureWrapper,
   region_field_ |-> region_field,
   transform_ |-> transform, runtime_ |-> runtime, context_ |-> context]

Store_requirement(runtime, context, requirement) ==
  [is_future_ |-> FALSE, is_output_store_ |-> FALSE, dim_ |-> requirement.dim,
   code_ |-> "MAX_TYPE_NUMBER", redop_id_ |-> NoRedop, future_ |-> DefaultFutureWrapper,
   region_field_ |-> RegionField(requirement, requirement.dim, 0, 0),
   transform_ |-> NullTransform, runtime_ |-> runtime, context_ |-> context]

\* The slot's content before its Store is constructed.
NoStore == Store_future(0, "MAX_TYPE_NUMBER", DefaultFutureWrapper, NullTransform)

\* Store's inline observers.
is_future(s) == s.is_future_
unbound(s) == s.is_output_store_
redop(s) == s.redop_id_
is_reduction(s) == s.redop_id_ # NoRedop

\* ---- Store::can_colocate_with (operation.cc) -------------------------------
\* The outcome records the value and how many times the RegionFields'
\* colocation test was evaluated.

Colocation(val, consulted) == [asked |-> TRUE, val |-> val, consulted |-> consulted]
NotAsked == [asked |-> FALSE, val |-> FALSE, consulted |-> 0]

Store_can_colocate_with_no_unbound(self, other) ==
  IF is_future(self) \/ is_future(other) THEN Colocation(FALSE, 0)
  ELSE IF is_reduction(self) \/ is_reduction(other)
    THEN IF redop(self) = redop(other)
           THEN Colocation(RegionField_can_colocate_with(self.region_field_,
                                                         other.region_field_), 1)
           ELSE Colocation(FALSE, 0)
  ELSE Colocation(RegionField_can_colocate_with(self.region_field_,
                                                other.region_field_), 1)

Store_can_colocate_with_both(self, other) ==
  IF is_future(self) \/ is_future(other) THEN Colocation(FALSE, 0)
  ELSE IF unbound(self) \/ unbound(other) THEN Colocation(FALSE, 0)
  ELSE IF is_reduction(self) /\ is_reduction(other)
    THEN IF redop(self) = redop(other)
           THEN Colocation(RegionField_can_colocate_with(self.region_field_,
                                                         other.region_field_), 1)
           ELSE Colocation(FALSE, 0)
  ELSE Colocation(RegionField_can_colocate_with(self.region_field_,
                                                other.region_field_), 1)

Store_can_colocate_with(self, other) ==
  IF is_future(self) \/ is_future(other) THEN Colocation(FALSE, 0)
  ELSE IF unbound(self) \/ unbound(other) THEN Colocation(FALSE, 0)
  ELSE IF is_reduction(self) \/ is_reduction(other)
    THEN IF redop(self) = redop(other)
           THEN Colocation(RegionField_can_colocate_with(self.region_field_,
                                                         other.region_field_), 1)
           ELSE Colocation(FALSE, 0)
  ELSE Colocation(RegionField_can_colocate_with(self.region_field_,
                                                other.region_field_), 1)

\* ---- initial state -----------------------------------------------------------

NoRet == [op |-> "none", DIM |-> 0, REDOP_ID |-> NoRedop, bounds |-> <<>>,
          out |-> [kind |-> "none", val |-> <<>>, inverted |-> <<>>, waited |-> FALSE,
                  query |-> [runtime |-> "none", context |-> "none"], assertion |-> ""]]
NoDez == [cursor |-> 0, pos |-> 0, data |-> <<>>]
NoCopy == [inputs_ |-> <<>>, outputs_ |-> <<>>,
           input_indirections_ |-> <<>>, output_indirections_ |-> <<>>]

\* No Store, no colocation answer, no Copy under construction.
InitObjects ==
  /\ stores = [s \in Slots |-> NoStore]
  /\ live = {}
  /\ colo = [p \in Slots \X Slots |-> NotAsked]
  /\ ret = NoRet
  /\ pc = 0
  /\ dez = NoDez
  /\ copy = NoCopy
  /\ log = <<>>

\* Store's operations hold no DEBUG_LEGATE-gated code path that is modelled.
Init == InitObjects /\ DEBUG_LEGATE = FALSE

\* Copy::Copy is built with or without DEBUG_LEGATE.
InitCopy == InitObjects /\ DEBUG_LEGATE \in BOOLEAN

\* ---- the mapper's colocation queries ----------------------------------------
\* Stores the mapper compares: futures, region-backed stores deserialized from
\* a task, and stores built directly from a region requirement.

ColocateFutureStores ==
  {Store_future(dim, "INT32", FutureWrapper(0, DomainOfRank(dim), 7), NullTransform) : dim \in Dims}

ColocateRegionStores ==
  {Store_region("rt1", "ctx1", dim, "INT32", redop_id,
                RegionField(Requirement(tree, dim), dim, 0, 0), out, NullTransform) :
     dim \in Dims, redop_id \in RedopIds, tree \in TreeIds, out \in BOOLEAN}

ColocateRequirementStores ==
  {Store_requirement("rt1", "ctx1", Requirement(tree, dim)) : tree \in TreeIds, dim \in Dims}

Construct(slot, S) ==
  /\ slot \notin live
  /\ \E s \in S : stores' = [stores EXCEPT ![slot] = s]
  /\ live' = live \cup {slot}

MapFutureStore(slot) ==
  /\ Construct(slot, ColocateFutureStores)
  /\ UNCHANGED <<colo, ret, pc, dez, copy, log, DEBUG_LEGATE>>

MapRegionStore(slot) ==
  /\ Construct(slot, ColocateRegionStores)
  /\ UNCHANGED <<colo, ret, pc, dez, copy, log, DEBUG_LEGATE>>

MapRequirementStore(slot) ==
  /\ Construct(slot, ColocateRequirementStores)
  /\ UNCHANGED <<colo, ret, pc, dez, copy, log, DEBUG_LEGATE>>

CanColocateWith(x, y) ==
  /\ x \in live /\ y \in live
  /\ colo' = [colo EXCEPT ![<<x, y>>] = Store_can_colocate_with(stores[x], stores[y])]
  /\ UNCHANGED <<stores, live, ret, pc, dez, copy, log, DEBUG_LEGATE>>

NextColocate ==
  \/ \E slot \in Slots : MapFutureStore(slot)
  \/ \E slot \in Slots : MapRegionStore(slot)
  \/ \E slot \in Slots : MapRequirementStore(slot)
  \/ \E x \in Slots, y \in Slots : CanColocateWith(x, y)

SpecColocate == Init /\ [][NextColocate]_vars

\* ---- properties of Store::can_colocate_with --------------------------------

Pairs == Slots \X Slots
BoundRegion(s) == ~is_future(s) /\ ~unbound(s)
SameTree(a, b) == a.region_field_.req_.tree_id = b.region_field_.req_.tree_id

\* C1: can_colocate_with is false whenever either side is future-backed or
\* unbound, whatever the region trees and reduction operator ids are, and the
\* RegionFields' colocation test is then never evaluated.
C1_FalseForFutureOrUnbound ==
  \A p \in Pairs :
    LET a == stores[p[1]]
        b == stores[p[2]]
    IN  (colo[p].asked /\ (is_future(a) \/ is_future(b) \/ unbound(a) \/ unbound(b)))
          => (colo[p].val = FALSE /\ colo[p].consulted = 0)

\* C1 witness: a future-backed store was compared with an unbound region
\* store, and that unbound store with a store of its own region tree and
\* reduction operator id.
C1_Witness ==
  /\ colo[<<1, 2>>].asked /\ colo[<<2, 2>>].asked /\ colo[<<2, 1>>].asked
  /\ is_future(stores[1])
  /\ ~is_future(stores[2]) /\ unbound(stores[2]) /\ is_reduction(stores[2])

\* C2 (as stated): for two bound region-backed stores the operator ids must
\* match only when both sides are reduction targets; otherwise, also when
\* exactly one side is a reduction target, the result is the RegionFields'
\* colocation test alone.
C2_AsStated ==
  \A p \in Pairs :
    LET a == stores[p[1]]
        b == stores[p[2]]
    IN  (colo[p].asked /\ BoundRegion(a) /\ BoundRegion(b))
          => colo[p].val = IF is_reduction(a) /\ is_reduction(b)
                             THEN redop(a) = redop(b) /\ SameTree(a, b)
                             ELSE SameTree(a, b)

\* C2 (amended): for two bound region-backed stores the operator ids must
\* match whenever at least one side is a reduction target, so a reduction
\* target never colocates with a store that is not one; only when neither side
\* is a reduction target is the result the RegionFields' colocation test alone.
C2_RedopWheneverEitherReduces ==
  \A p \in Pairs :
    LET a == stores[p[1]]
        b == stores[p[2]]
    IN  (colo[p].asked /\ BoundRegion(a) /\ BoundRegion(b))
          => /\ colo[p].val = IF is_reduction(a) \/ is_reduction(b)
                                THEN redop(a) = redop(b) /\ SameTree(a, b)
                                ELSE SameTree(a, b)
             /\ (is_reduction(a) # is_reduction(b)) => colo[p].val = FALSE

\* C2 witness: a reduction target was compared with a bound store of the same
\* region tree that is not a reduction target.
C2_Witness ==
  \E p \in Pairs :
    /\ colo[p].asked /\ BoundRegion(stores[p[1]]) /\ BoundRegion(stores[p[2]])
    /\ is_reduction(stores[p[1]]) /\ ~is_reduction(stores[p[2]])
    /\ SameTree(stores[p[1]], stores[p[2]])

\* C3: for two bound, non-future, non-reduction region-backed stores a and b,
\* a.can_colocate_with(b) equals b.can_colocate_with(a), and both are true when
\* the two regions share a region tree.
C3_Symmetric ==
  \A x \in Slots, y \in Slots :
    LET a == stores[x]
        b == stores[y]
    IN  (/\ colo[<<x, y>>].asked /\ colo[<<y, x>>].asked
         /\ BoundRegion(a) /\ BoundRegion(b)
         /\ ~is_reduction(a) /\ ~is_reduction(b))
          => /\ colo[<<x, y>>].val = colo[<<y, x>>].val
             /\ SameTree(a, b) => (colo[<<x, y>>].val /\ colo[<<y, x>>].val)

\* C3 witness: two distinct plain region stores of different ranks and one
\* region tree were compared in both directions.
C3_Witness ==
  /\ colo[<<1, 2>>].asked /\ colo[<<2, 1>>].asked
  /\ BoundRegion(stores[1]) /\ BoundRegion(stores[2])
  /\ ~is_reduction(stores[1]) /\ ~is_reduction(stores[2])
  /\ SameTree(stores[1], stores[2])
  /\ stores[1] # stores[2]

\* ---- accessors of RegionField and of a future (core.inl) --------------------
\* An accessor is described by what it was built from.  A Rect<DIM> is the
\* tuple of its extents; NoBounds stands for "no bounds argument" and
\* NoInverse for "no transform argument".

NoBounds == <<>>
Rects(DIM) == {DomainOfRank(DIM)}

\* RegionField::read_accessor / write_accessor / read_write_accessor /
\* reduce_accessor, in their four overloads (plain, transform, bounds,
\* bounds and transform).
RegionField_accessor(self, mode, DIM, redop_id, bounds, transform) ==
  [source |-> "region_field", mode |-> mode, DIM |-> DIM, fid |-> self.fid_,
   redop_id |-> redop_id, bounds |-> bounds, transform |-> transform]

\* AccessorRO<T, DIM>(future_, [bounds,] NO_MEMKIND, sizeof(T), false, false,
\* NULL, sizeof(uint64_t))
Future_accessor(future, mode, DIM, bounds) ==
  [source |-> "future", mode |-> mode, DIM |-> DIM, fid |-> -1,
   redop_id |-> NoRedop, bounds |-> bounds, transform |-> NoInverse]

\* future_.get_result<VAL>(): waits for the value and reinterprets its leading
\* sizeof(VAL) bytes.
RECURSIVE Pow256(_)
Pow256(n) == IF n = 0 THEN 1 ELSE 256 * Pow256(n - 1)
Future_get_result(future, sizeofVAL) == future.value % Pow256(sizeofVAL)

\* ---- outcomes of a Store operation -------------------------------------------
\* kind: "returned" or "assert"; inverted: the dimensions inverse_transform was
\* called with; waited: whether the call waited for the future's value; query:
\* the runtime/context the index-space domain was asked of.

NoQuery == [runtime |-> "none", context |-> "none"]
Returned(val) ==
  [kind |-> "returned", val |-> val, inverted |-> <<>>, waited |-> FALSE,
   query |-> NoQuery, assertion |-> ""]
Failed(assertion) ==
  [kind |-> "assert", val |-> <<>>, inverted |-> <<>>, waited |-> FALSE,
   query |-> NoQuery, assertion |-> assertion]

\* The region branches shared by every accessor: with a transform stack the
\* stack is inverted to in_dim and handed to the RegionField, without one the
\* RegionField accessor is built with no transform.
RegionBranch(s, mode, DIM, in_dim, redop_id, bounds) ==
  IF ~s.transform_.null
    THEN LET transform == TransformStack_inverse_transform(s.transform_.stack, in_dim)
         IN  [Returned(RegionField_accessor(s.region_field_, mode, DIM, redop_id,
                                            bounds, transform))
                EXCEPT !.inverted = <<in_dim>>]
    ELSE Returned(RegionField_accessor(s.region_field_, mode, DIM, redop_id,
                                       bounds, NoInverse))

\* ---- Store accessors without bounds (core.inl) ---------------------------------

Store_read_accessor(s, DIM) ==
  IF ~(DIM = s.dim_ \/ s.dim_ = 0) THEN Failed("DIM == dim_ || dim_ == 0")
  ELSE IF s.is_future_ THEN Returned(Future_accessor(s.future_, "RO", DIM, NoBounds))
  ELSE RegionBranch(s, "RO", DIM, s.dim_, NoRedop, NoBounds)

Store_write_accessor_unchecked(s, DIM) ==
  IF s.is_future_ THEN Failed("!is_future_")
  ELSE RegionBranch(s, "WO", DIM, s.dim_, NoRedop, NoBounds)

Store_write_accessor(s, DIM) ==
  IF ~(DIM = s.dim_ \/ s.dim_ = 0) THEN Failed("DIM == dim_ || dim_ == 0")
  ELSE IF s.is_future_ THEN Failed("!is_future_")
  ELSE RegionBranch(s, "WO", DIM, s.dim_, NoRedop, NoBounds)

Store_read_write_accessor(s, DIM) ==
  IF ~(DIM = s.dim_ \/ s.dim_ = 0) THEN Failed("DIM == dim_ || dim_ == 0")
  ELSE IF s.is_future_ THEN Failed("!is_future_")
  ELSE RegionBranch(s, "RW", DIM, s.dim_, NoRedop, NoBounds)

Store_reduce_accessor(s, REDOP_ID, DIM) ==
  IF DIM # s.dim_ THEN Failed("DIM == dim_")
  ELSE IF s.is_future_ THEN Failed("!is_future_")
  ELSE IF REDOP_ID # s.redop_id_ THEN Failed("OP::REDOP_ID == redop_id_")
  ELSE RegionBranch(s, "RD", DIM, DIM, s.redop_id_, NoBounds)

\* ---- Store accessors with bounds (core.inl) --------------------------------------

Store_read_accessor_bounds_no_future(s, DIM, bounds) ==
  IF DIM # s.dim_ THEN Failed("DIM == dim_")
  ELSE RegionBranch(s, "RO", DIM, DIM, NoRedop, bounds)

Store_read_accessor_bounds(s, DIM, bounds) ==
  IF DIM # s.dim_ THEN Failed("DIM == dim_")
  ELSE IF s.is_future_ THEN Returned(Future_accessor(s.future_, "RO", DIM, bounds))
  ELSE RegionBranch(s, "RO", DIM, DIM, NoRedop, bounds)

Store_write_accessor_bounds(s, DIM, bounds) ==
  IF s.is_future_ THEN Failed("!is_future_")
  ELSE IF DIM # s.dim_ THEN Failed("DIM == dim_")
  ELSE RegionBranch(s, "WO", DIM, DIM, NoRedop, bounds)

Store_read_write_accessor_bounds(s, DIM, bounds) ==
  IF s.is_future_ THEN Failed("!is_future_")
  ELSE IF DIM # s.dim_ THEN Failed("DIM == dim_")
  ELSE RegionBranch(s, "RW", DIM, DIM, NoRedop, bounds)

Store_reduce_accessor_bounds(s, REDOP_ID, DIM, bounds) ==
  IF s.is_future_ THEN Failed("!is_future_")
  ELSE IF DIM # s.dim_ THEN Failed("DIM == dim_")
  ELSE RegionBranch(s, "RD", DIM, DIM, s.redop_id_, bounds)

\* ---- Store::domain (operation.cc), Store::shape and Store::scalar (core.inl) ----

Store_domain_no_rank_check(s) ==
  IF unbound(s) THEN Failed("!unbound()")
  ELSE LET backing == IF s.is_future_
                        THEN [domain |-> FutureWrapper_domain(s.future_), query |-> NoQuery]
                        ELSE RegionField_domain(s.region_field_, s.runtime_, s.context_)
           result == IF ~s.transform_.null
                       THEN TransformStack_transform(s.transform_.stack, backing.domain)
                       ELSE backing.domain
       IN  [Returned(result) EXCEPT !.query = backing.query]

Store_domain(s) ==
  IF unbound(s) THEN Failed("!unbound()")
  ELSE LET backing == IF s.is_future_
                        THEN [domain |-> FutureWrapper_domain(s.future_), query |-> NoQuery]
                        ELSE RegionField_domain(s.region_field_, s.runtime_, s.context_)
           result == IF ~s.transform_.null
                       THEN TransformStack_transform(s.transform_.stack, backing.domain)
                       ELSE backing.domain
       IN  IF Len(result) # s.dim_ THEN Failed("result.dim == dim_")
           ELSE [Returned(result) EXCEPT !.query = backing.query]

\* Legion::Rect<DIM>(domain()): the conversion of a Domain to a Rect<DIM>
\* requires the Domain's rank to be DIM.
Store_shape(s, DIM) ==
  LET domain == Store_domain(s)
  IN  IF domain.kind = "assert" THEN domain
      ELSE IF Len(domain.val) # DIM THEN Failed("DIM == dim")
      ELSE domain

Store_scalar_unchecked(s, sizeofVAL) ==
  [Returned(Future_get_result(s.future_, sizeofVAL)) EXCEPT !.waited = TRUE]

Store_scalar(s, sizeofVAL) ==
  IF ~s.is_future_ THEN Failed("is_future_")
  ELSE [Returned(Future_get_result(s.future_, sizeofVAL)) EXCEPT !.waited = TRUE]

\* ---- task code using one Store ----------------------------------------------------
\* Stores a task receives: futures and region fields of any declared rank, any
\* backing rank and any transform stack applicable to the backing.

FutureValues == {7, 263}
ValSizes == {1, 2}
RuntimeContexts == {<<"rt1", "ctx1">>, <<"rt2", "ctx2">>}
Transforms(rank) ==
  {NullTransform} \cup {TransformStack(st) : st \in {x \in Stacks : Applicable(x, rank)}}

TaskFutureStores ==
  UNION {{Store_future(dim, "INT32", FutureWrapper(0, DomainOfRank(rank), value), t) :
            dim \in Dims, value \in FutureValues, t \in Transforms(rank)} : rank \in Dims}

TaskRegionStores ==
  UNION {{Store_region(rc[1], rc[2], dim, "INT32", redop_id,
                       RegionField(Requirement(1, rank), rank, 0, 0), out, t) :
            rc \in RuntimeContexts, dim \in Dims, redop_id \in RedopIds,
            out \in BOOLEAN, t \in Transforms(rank)} : rank \in Dims}

TaskRequirementStores ==
  {Store_requirement(rc[1], rc[2], Requirement(1, rank)) :
     rc \in RuntimeContexts, rank \in Dims}

Call(op, DIM, REDOP_ID, bounds, out) ==
  /\ 1 \in live
  /\ ret' = [op |-> op, DIM |-> DIM, REDOP_ID |-> REDOP_ID, bounds |-> bounds, out |-> out]
  /\ UNCHANGED <<stores, live, colo, pc, dez, copy, log, DEBUG_LEGATE>>

NewFutureStore ==
  /\ Construct(1, TaskFutureStores)
  /\ UNCHANGED <<colo, ret, pc, dez, copy, log, DEBUG_LEGATE>>

NewRegionStore ==
  /\ Construct(1, TaskRegionStores)
  /\ UNCHANGED <<colo, ret, pc, dez, copy, log, DEBUG_LEGATE>>

NewRequirementStore ==
  /\ Construct(1, TaskRequirementStores)
  /\ UNCHANGED <<colo, ret, pc, dez, copy, log, DEBUG_LEGATE>>

ReadAccessor ==
  \E DIM \in StaticDims :
    Call("read_accessor", DIM, NoRedop, NoBounds, Store_read_accessor(stores[1], DIM))

WriteAccessor ==
  \E DIM \in StaticDims :
    Call("write_accessor", DIM, NoRedop, NoBounds, Store_write_accessor(stores[1], DIM))

ReadWriteAccessor ==
  \E DIM \in StaticDims :
    Call("read_write_accessor", DIM, NoRedop, NoBounds,
         Store_read_write_accessor(stores[1], DIM))

ReduceAccessor ==
  \E DIM \in StaticDims, REDOP_ID \in 1..MaxRedop :
    Call("reduce_accessor", DIM, REDOP_ID, NoBounds,
         Store_reduce_accessor(stores[1], REDOP_ID, DIM))

ReadAccessorBounds ==
  \E DIM \in StaticDims : \E bounds \in Rects(DIM) :
    Call("read_accessor", DIM, NoRedop, bounds,
         Store_read_accessor_bounds(stores[1], DIM, bounds))

WriteAccessorBounds ==
  \E DIM \in StaticDims : \E bounds \in Rects(DIM) :
    Call("write_accessor", DIM, NoRedop, bounds,
         Store_write_accessor_bounds(stores[1], DIM, bounds))

ReadWriteAccessorBounds ==
  \E DIM \in StaticDims : \E bounds \in Rects(DIM) :
    Call("read_write_accessor", DIM, NoRedop, bounds,
         Store_read_write_accessor_bounds(stores[1], DIM, bounds))

ReduceAccessorBounds ==
  \E DIM \in StaticDims, REDOP_ID \in 1..MaxRedop : \E bounds \in Rects(DIM) :
    Call("reduce_accessor", DIM, REDOP_ID, bounds,
         Store_reduce_accessor_bounds(stores[1], REDOP_ID, DIM, bounds))

Domain ==
  Call("domain", 0, NoRedop, NoBounds, Store_domain(stores[1]))

Shape ==
  \E DIM \in StaticDims :
    Call("shape", DIM, NoRedop, NoBounds, Store_shape(stores[1], DIM))

Scalar ==
  \E sizeofVAL \in ValSizes :
    Call("scalar", sizeofVAL, NoRedop, NoBounds, Store_scalar(stores[1], sizeofVAL))

NextStore ==
  \/ NewFutureStore \/ NewRegionStore \/ NewRequirementStore
  \/ ReadAccessor \/ WriteAccessor \/ ReadWriteAccessor \/ ReduceAccessor
  \/ ReadAccessorBounds \/ WriteAccessorBounds \/ ReadWriteAccessorBounds
  \/ ReduceAccessorBounds
  \/ Domain \/ Shape \/ Scalar

SpecStore == Init /\ [][NextStore]_vars

\* ---- properties of the accessors, domain and scalar -----------------------------

AccessorOps == {"read_accessor", "write_accessor", "read_write_accessor", "reduce_accessor"}
AccessorCall == ret.op \in AccessorOps
ReturnedCall == ret.out.kind = "returned"
AssertCall == ret.out.kind = "assert"
WithBounds == ret.bounds # NoBounds

\* C4 (as stated): reduce_accessor(), with or without bounds, trips the contract
\* check whenever the requested OP::REDOP_ID differs from the Store's redop_id_.
C4_AsStated ==
  (ret.op = "reduce_accessor" /\ ret.REDOP_ID # stores[1].redop_id_) => AssertCall

\* C5 (as stated): every accessor operation trips the contract check when DIM
\* differs from dim_, and returns an accessor only when DIM equals dim_, for
\* every dim_ including 0.
C5_AsStated ==
  AccessorCall =>
    /\ ret.DIM # stores[1].dim_ => AssertCall
    /\ ReturnedCall => ret.DIM = stores[1].dim_

\* The accessors whose dimension check accepts every DIM on a rank-0 Store.
RankZeroExempt ==
  /\ stores[1].dim_ = 0
  /\ ~WithBounds
  /\ ret.op \in {"read_accessor", "write_accessor", "read_write_accessor"}

\* C5 (amended): every accessor operation trips the contract check when DIM
\* differs from dim_, except read_accessor(), write_accessor() and
\* read_write_accessor() without bounds on a Store with dim_ = 0, whose
\* dimension check accepts every DIM; an accessor is returned only when DIM
\* equals dim_ or under that exception.
C5_DimensionContract ==
  AccessorCall =>
    /\ (ret.DIM # stores[1].dim_ /\ ~RankZeroExempt) => AssertCall
    /\ ReturnedCall => (ret.DIM = stores[1].dim_ \/ RankZeroExempt)
    /\ (RankZeroExempt /\ AssertCall) => ret.out.assertion = "!is_future_"
    /\ (RankZeroExempt /\ ~stores[1].is_future_) => ReturnedCall

\* C5 witness: write_accessor() returned an accessor of DIM 1 on a rank-0 region
\* Store.
C5_Witness ==
  /\ ret.op = "write_accessor" /\ ~WithBounds
  /\ stores[1].dim_ = 0 /\ ret.DIM = 1 /\ ~stores[1].is_future_
  /\ ReturnedCall

\* C6 (as stated): on a future-backed Store every accessor operation, in every
\* access mode and with or without bounds, takes the future branch and builds
\* the accessor from the FutureWrapper without consulting the transform stack
\* or the RegionField.
C6_AsStated ==
  (AccessorCall /\ stores[1].is_future_ /\ ret.DIM = stores[1].dim_) =>
    /\ ReturnedCall
    /\ ret.out.val.source = "future"
    /\ ret.out.inverted = <<>>

\* C6 (amended): on a future-backed Store read_accessor, with or without
\* bounds, takes the future branch once its dimension check passes and builds
\* the accessor from the FutureWrapper without consulting the transform stack
\* or the RegionField; write_accessor, read_write_accessor and reduce_accessor,
\* with or without bounds, trip the contract check on a future-backed Store.
C6_FutureBranch ==
  (AccessorCall /\ stores[1].is_future_) =>
    IF ret.op = "read_accessor"
      THEN /\ ReturnedCall <=> (ret.DIM = stores[1].dim_ \/ RankZeroExempt)
           /\ ReturnedCall =>
                /\ ret.out.val.source = "future"
                /\ ret.out.val.mode = "RO"
                /\ ret.out.val.bounds = ret.bounds
                /\ ret.out.val.transform = NoInverse
                /\ ret.out.inverted = <<>>
      ELSE AssertCall

\* C6 witness: read_accessor(bounds) returned a future accessor on a
\* future-backed Store that carries a transform stack.
C6_Witness ==
  /\ ret.op = "read_accessor" /\ WithBounds
  /\ stores[1].is_future_ /\ ~stores[1].transform_.null
  /\ ReturnedCall /\ ret.out.val.source = "future"

\* The domain of the Store's backing, and the domain Store::domain is to return.
BackingDomain(s) ==
  IF s.is_future_ THEN s.future_.domain_ ELSE DomainOfRank(s.region_field_.req_.dim)
VisibleDomain(s) ==
  IF s.transform_.null THEN BackingDomain(s)
  ELSE TransformStack_transform(s.transform_.stack, BackingDomain(s))

\* C7: Store::domain, and Store::shape built on it, fail the contract check on
\* an unbound store; on a bound store a returned domain is the backing's domain
\* (the FutureWrapper's domain, or the runtime's index-space domain asked with
\* the Store's own runtime and context), with the transform stack's forward map
\* applied exactly when a stack is present, and its rank equals dim_.
C7_Domain ==
  (ret.op \in {"domain", "shape"}) =>
    /\ unbound(stores[1]) => AssertCall
    /\ ReturnedCall =>
         /\ ret.out.val = VisibleDomain(stores[1])
         /\ Len(ret.out.val) = stores[1].dim_
         /\ ret.out.query = IF stores[1].is_future_ THEN NoQuery
                            ELSE [runtime |-> stores[1].runtime_,
                                  context |-> stores[1].context_]
    /\ (ret.op = "domain" /\ ~unbound(stores[1])
          /\ Len(VisibleDomain(stores[1])) = stores[1].dim_) => ReturnedCall

\* C7 witness: domain() returned the promoted domain of a region-backed Store
\* that was asked of the second runtime.
C7_Witness ==
  /\ ret.op = "domain" /\ ReturnedCall
  /\ ~stores[1].is_future_ /\ ~stores[1].transform_.null
  /\ stores[1].runtime_ = "rt2"
  /\ Len(ret.out.val) = 1 + stores[1].region_field_.req_.dim

\* C8: scalar<V>() trips the contract check on a region-backed Store; on a
\* future-backed Store it returns the future's value as a V, and it is the only
\* Store operation that waits for the future's value.
C8_Scalar ==
  /\ ret.op = "scalar" =>
       IF stores[1].is_future_
         THEN /\ ReturnedCall
              /\ ret.out.val = stores[1].future_.value % Pow256(ret.DIM)
              /\ ret.out.waited
         ELSE AssertCall /\ ~ret.out.waited
  /\ ret.op # "scalar" => ~ret.out.waited

\* C8 witness: scalar<V>() with a one-byte V returned the low byte of a wider
\* future value.
C8_Witness ==
  /\ ret.op = "scalar" /\ stores[1].is_future_ /\ ReturnedCall
  /\ stores[1].future_.value = 263 /\ ret.out.val = 7

\* C10 (as stated): in the region branches every accessor operation hands the
\* RegionField the stack's inverse taken at the requested compile-time DIM
\* (and the bounds when supplied) when a transform stack is present, and no
\* transform at all when none is.
C10_AsStated ==
  (AccessorCall /\ ReturnedCall /\ ~stores[1].is_future_) =>
    /\ ret.out.val.source = "region_field"
    /\ ret.out.val.bounds = ret.bounds
    /\ IF ~stores[1].transform_.null
         THEN /\ ret.out.inverted = <<ret.DIM>>
              /\ ret.out.val.transform =
                   TransformStack_inverse_transform(stores[1].transform_.stack, ret.DIM)
         ELSE /\ ret.out.inverted = <<>>
              /\ ret.out.val.transform = NoInverse

\* ---- CopyDeserializer (boundary) ---------------------------------------------------
\* The serialized argument buffer of a copy holds four Store lists.  A
\* serialized Store says whether it is future-backed and, if not, which
\* requirement of its group backs it.  The deserializer resolves a region
\* Store against the requirement list under its cursor.

RequirementLists ==
  <<"src_requirements", "dst_requirements",
    "src_indirect_requirements", "dst_indirect_requirements">>

SerializedStores == {[is_future |-> TRUE, idx |-> 0], [is_future |-> FALSE, idx |-> 0]}
SerializedLists == SeqsUpTo(SerializedStores, MaxList)
MapperData == {<<a, b, c, d>> : a \in SerializedLists, b \in SerializedLists,
                                c \in SerializedLists, d \in SerializedLists}

CopyDeserializer(mapper_data) == [cursor |-> 1, pos |-> 1, data |-> mapper_data]

ResolveStore(d, serialized) ==
  IF serialized.is_future
    THEN [is_future_ |-> TRUE, req_list |-> "none", idx |-> serialized.idx]
    ELSE [is_future_ |-> FALSE, req_list |-> RequirementLists[d.cursor],
          idx |-> serialized.idx]

\* dez.unpack<std::vector<Store>>()
unpack_stores(d) ==
  [stores |-> [i \in 1..Len(d.data[d.pos]) |-> ResolveStore(d, d.data[d.pos][i])],
   dez    |-> [d EXCEPT !.pos = d.pos + 1]]

\* dez.next_requirement_list()
next_requirement_list(d) == [d EXCEPT !.cursor = d.cursor + 1]

\* ---- Copy::Copy (operation.cc) -------------------------------------------------------
\* The constructor body, statement by statement.

Unpack(field) == [stmt |-> "unpack", field |-> field]
AdvanceCursor == [stmt |-> "next_requirement_list", field |-> "none"]

CopyStatements_missing_advance ==
  <<Unpack("inputs_"), AdvanceCursor,
    Unpack("outputs_"),
    Unpack("input_indirections_"), AdvanceCursor,
    Unpack("output_indirections_")>>

CopyStatements ==
  <<Unpack("inputs_"), AdvanceCursor,
    Unpack("outputs_"), AdvanceCursor,
    Unpack("input_indirections_"), AdvanceCursor,
    Unpack("output_indirections_")>>

\* pc: 0 before construction, 1..Len(CopyStatements) the statement to run next,
\* then the DEBUG_LEGATE checks, then constructed or stopped by an assertion.
PcChecks == Len(CopyStatements) + 1
PcConstructed == Len(CopyStatements) + 2
PcAssert == Len(CopyStatements) + 3

AnyFuture(list) == \E i \in 1..Len(list) : list[i].is_future_

\* The DEBUG_LEGATE block: every store of every list must not be a future.
Copy_debug_checks_pass(c) ==
  /\ ~AnyFuture(c.inputs_)
  /\ ~AnyFuture(c.outputs_)
  /\ ~AnyFuture(c.input_indirections_)
  /\ ~AnyFuture(c.output_indirections_)

CopyBegin ==
  /\ pc = 0
  /\ \E mapper_data \in MapperData : dez' = CopyDeserializer(mapper_data)
  /\ pc' = 1
  /\ UNCHANGED <<stores, live, colo, ret, copy, log, DEBUG_LEGATE>>

CopyUnpack ==
  /\ pc \in 1..Len(CopyStatements)
  /\ CopyStatements[pc].stmt = "unpack"
  /\ LET u == unpack_stores(dez)
     IN  /\ copy' = [copy EXCEPT ![CopyStatements[pc].field] = u.stores]
         /\ dez' = u.dez
         /\ log' = Append(log, [call |-> "unpack", field |-> CopyStatements[pc].field,
                                cursor |-> dez.cursor])
  /\ pc' = pc + 1
  /\ UNCHANGED <<stores, live, colo, ret, DEBUG_LEGATE>>

CopyNextRequirementList ==
  /\ pc \in 1..Len(CopyStatements)
  /\ CopyStatements[pc].stmt = "next_requirement_list"
  /\ dez' = next_requirement_list(dez)
  /\ log' = Append(log, [call |-> "next_requirement_list", field |-> "none",
                         cursor |-> dez'.cursor])
  /\ pc' = pc + 1
  /\ UNCHANGED <<stores, live, colo, ret, copy, DEBUG_LEGATE>>

CopyDebugChecks ==
  /\ pc = PcChecks
  /\ pc' = IF DEBUG_LEGATE /\ ~Copy_debug_checks_pass(copy) THEN PcAssert ELSE PcConstructed
  /\ UNCHANGED <<stores, live, colo, ret, dez, copy, log, DEBUG_LEGATE>>

NextCopy == CopyBegin \/ CopyUnpack \/ CopyNextRequirementList \/ CopyDebugChecks

SpecCopy == InitCopy /\ [][NextCopy]_vars

\* ---- properties of Copy::Copy ------------------------------------------------------------

FieldsUnpacked(l) ==
  LET U == {i \in 1..Len(l) : l[i].call = "unpack"}
  IN  [k \in 1..Cardinality(U) |->
         l[CHOOSE i \in U : Cardinality({j \in U : j <= i}) = k].field]
ResolvedIn(list, k, serialized) ==
  /\ Len(list) = Len(serialized)
  /\ \A i \in 1..Len(list) :
       /\ list[i].is_future_ = serialized[i].is_future
       /\ ~list[i].is_future_ => list[i].req_list = RequirementLists[k]

\* C9: Copy::Copy unpacks exactly four Store lists, in the order inputs,
\* outputs, input indirections, output indirections, with exactly one advance
\* of the requirement-list cursor between consecutive unpacks and none before
\* the first or after the last, so the k-th list is resolved against the k-th
\* requirement group; with DEBUG_LEGATE the construction fails if any store of
\* any list is future-backed.
C9_CopyUnpacksFourGroups ==
  /\ \A i \in 1..Len(log) :
       IF i % 2 = 1
         THEN log[i].call = "unpack" /\ log[i].cursor = (i + 1) \div 2
         ELSE log[i].call = "next_requirement_list"
  /\ pc >= PcChecks =>
       /\ Len(log) = 7
       /\ FieldsUnpacked(log) =
            <<"inputs_", "outputs_", "input_indirections_", "output_indirections_">>
       /\ dez.cursor = 4
       /\ ResolvedIn(copy.inputs_, 1, dez.data[1])
       /\ ResolvedIn(copy.outputs_, 2, dez.data[2])
       /\ ResolvedIn(copy.input_indirections_, 3, dez.data[3])
       /\ ResolvedIn(copy.output_indirections_, 4, dez.data[4])
  /\ (pc = PcConstructed /\ DEBUG_LEGATE) =>
       \A f \in {"inputs_", "outputs_", "input_indirections_", "output_indirections_"} :
         ~AnyFuture(copy[f])
  /\ pc = PcAssert =>
       /\ DEBUG_LEGATE
       /\ \E f \in {"inputs_", "outputs_", "input_indirections_", "output_indirections_"} :
            AnyFuture(copy[f])

\* C9 witness: a Copy was constructed whose four lists each hold a region
\* store, resolved against four different requirement groups.
C9_Witness ==
  /\ pc = PcConstructed /\ DEBUG_LEGATE
  /\ Len(copy.inputs_) > 0 /\ Len(copy.outputs_) > 0
  /\ Len(copy.input_indirections_) > 0 /\ Len(copy.output_indirections_) > 0
  /\ copy.input_indirections_[1].req_list = "src_indirect_requirements"
  /\ copy.output_indirections_[1].req_list = "dst_indirect_requirements"

====
